---- MODULE Spec2Model ----
(***************************************************************************)
(* Downlink scheduler and join handler of the LoRaWAN network server.      *)
(*                                                                         *)
(* One device (one DevEUI) is modelled.  The shared state is what lives in *)
(* the cache (the stored node-session and the MAC-command queue) and what  *)
(* has been handed to the gateway.  Every call of SendUplinkResponse,      *)
(* HandlePushDataDown and handleCollectedJoinRequestPackets runs in a task *)
(* that works on its own copy of the session; tasks interleave at the      *)
(* accesses to the cache (load, ReadQueue, SaveNodeSession,                *)
(* DeleteQueueItem, FlushQueue).  The computation between two cache        *)
(* accesses of one task touches only the task's locals and the gateway and *)
(* is joined to the cache access it precedes or follows.                   *)
(***************************************************************************)
EXTENDS Integers, Sequences, FiniteSets, TLC

VARIABLES
    store,      \* the node-session stored in the cache for the DevEUI
    queue,      \* the MAC-command queue of the DevEUI (FIFO, head first)
    call,       \* per task: the locals of its call, with the packet it
                \* handed to the gateway
    calls,      \* calls started so far
    nextId,     \* queue items created so far
    joins,      \* sessions installed by the join handler so far
    dedup,      \* the deduplication of the receptions of one JoinRequest
    rpc         \* the last error the API converted, and the gRPC status

vars == <<store, queue, call, calls, nextId, joins, dedup, rpc>>

----------------------------------------------------------------------------
(* Bounds of the model *)

\* calls (uplink responses, pushes, joins) started in one behaviour
MaxCalls == 2
\* MAC-queue items enqueued in one behaviour
MaxItems == 2

\* the tasks that run the calls; they are interchangeable and start in
\* this order
Tasks == {1, 2}

----------------------------------------------------------------------------
(* Integer widths *)

\* uint8(x) conversion
U8(x) == x % 256

\* A uint32 (FCntDown, the gateway timestamp) is kept as its two 16-bit
\* halves: its value is hi * 65536 + lo.
Half == 65536

U32(hi, lo) == [hi |-> hi, lo |-> lo]

\* uint32(n), for 0 <= n < 2^31
ToU32(n) == U32((n \div Half) % Half, n % Half)

Zero32 == U32(0, 0)
MaxU32 == U32(Half - 1, Half - 1)

\* a + b in uint32 arithmetic (modulo 2^32)
Add32(a, b) ==
    U32((a.hi + b.hi + ((a.lo + b.lo) \div Half)) % Half, (a.lo + b.lo) % Half)

\* x + 1 in uint32 arithmetic: x++
Inc32(x) == Add32(x, ToU32(1))

\* x + 1 as a number, without the reduction modulo 2^32: at MaxU32 it is
\* no uint32
Succ(x) ==
    IF x.lo = Half - 1 THEN U32(x.hi + 1, 0) ELSE U32(x.hi, x.lo + 1)

\* the LoRaWAN specs define 15 to be the max FOpts size
MaxFOptsLen == 15

----------------------------------------------------------------------------
(* Band configuration (EU868): eight data rates DR0..DR7 *)

MaxPayloadSizeN == <<51, 51, 51, 115, 222, 222, 222, 222>>

\* len(common.Band.DataRates)
NumDataRates == Len(MaxPayloadSizeN)

\* common.Band.MaxPayloadSize[dr].N, dr counted from 0
MaxPayloadSize(dr) == MaxPayloadSizeN[dr + 1]

\* session.RXWindow values
RX1 == "RX1"
RX2 == "RX2"
RXOther == "RX?"

----------------------------------------------------------------------------
(* MAC-command queue *)

\* A queue item: Data is modelled by its length and by whether
\* lorawan.MACCommand.UnmarshalBinary accepts it; FRMPayload is the item's
\* mark.  A decoded command encodes to the same number of bytes.
Item(i, l, f, d) == [id |-> i, len |-> l, frm |-> f, ok |-> d]

\* the items the network controller and the MAC engine enqueue
ItemShapes ==
    { [len |-> 5,  frm |-> FALSE, ok |-> TRUE],
      [len |-> 11, frm |-> FALSE, ok |-> TRUE],
      [len |-> 5,  frm |-> FALSE, ok |-> FALSE],
      [len |-> 30, frm |-> TRUE,  ok |-> TRUE],
      [len |-> 5,  frm |-> TRUE,  ok |-> FALSE] }

RECURSIVE SumLen(_)
SumLen(s) == IF s = <<>> THEN 0 ELSE Head(s).len + SumLen(Tail(s))

Ids(s) == { s[i].id : i \in 1..Len(s) }

IsPrefix(p, s) == Len(p) <= Len(s) /\ p = SubSeq(s, 1, Len(p))

\* maccommand.FilterItems(items, frmPayload, maxBytes): the longest prefix of
\* items marked frmPayload whose concatenated length is at most maxBytes
RECURSIVE FilterFrom(_, _, _, _)
FilterFrom(items, frmPayload, maxBytes, count) ==
    IF items = <<>> THEN <<>>
    ELSE IF Head(items).frm # frmPayload THEN <<>>
    ELSE IF count + Head(items).len > maxBytes THEN <<>>
    ELSE <<Head(items)>> \o
         FilterFrom(Tail(items), frmPayload, maxBytes, count + Head(items).len)

FilterItems(items, frmPayload, maxBytes) ==
    FilterFrom(items, frmPayload, maxBytes, 0)

\* maccommand.DeleteQueueItem: remove the item from the queue (a no-op when
\* it is no longer there)
DeleteQueueItem(q, qi) == SelectSeq(q, LAMBDA x : x # qi)

Min(a, b) == IF a < b THEN a ELSE b

\* getAndFilterMACQueueItems without the cap of 15 bytes on FOpts
getAndFilterMACQueueItems_NoFOptsCap(queueItems, allowEncrypted, remainingPayloadSize) ==
    IF Len(queueItems) = 0
    THEN [items |-> <<>>, encrypted |-> FALSE, pending |-> FALSE]
    ELSE IF allowEncrypted /\ queueItems[1].frm
    THEN LET sel == FilterItems(queueItems, TRUE, remainingPayloadSize)
         IN  [items |-> sel, encrypted |-> TRUE,
              pending |-> Len(sel) # Len(queueItems)]
    ELSE LET sel == FilterItems(queueItems, FALSE, remainingPayloadSize)
         IN  [items |-> sel, encrypted |-> FALSE,
              pending |-> Len(sel) # Len(queueItems)]

\* getAndFilterMACQueueItems, after a successful ReadQueue of queueItems
getAndFilterMACQueueItems(queueItems, allowEncrypted, remainingPayloadSize) ==
    IF Len(queueItems) = 0
    THEN [items |-> <<>>, encrypted |-> FALSE, pending |-> FALSE]
    ELSE IF allowEncrypted /\ queueItems[1].frm
    THEN LET sel == FilterItems(queueItems, TRUE, remainingPayloadSize)
         IN  [items |-> sel, encrypted |-> TRUE,
              pending |-> Len(sel) # Len(queueItems)]
    ELSE LET maxFOptsLen == Min(remainingPayloadSize, MaxFOptsLen)
             sel == FilterItems(queueItems, FALSE, maxFOptsLen)
         IN  [items |-> sel, encrypted |-> FALSE,
              pending |-> Len(sel) # Len(queueItems)]

\* macQueueItemsToMACCommands: the items that unmarshal, in order; the
\* others are reported to the network controller and left out
macQueueItemsToMACCommands(items) == SelectSeq(items, LAMBDA qi : qi.ok)

----------------------------------------------------------------------------
(* Node-session *)

\* a gateway MAC; LastRXInfoSet is modelled by the gateways that heard the
\* last uplink
GW1 == "gw1"

NodeSession(devAddr, nwkSKey, fCntUp, fCntDown, rxWindow, rxDelay,
            rx1DROffset, rx2DR, adrInterval, lastRX) ==
    [devAddr |-> devAddr, nwkSKey |-> nwkSKey, fCntUp |-> fCntUp,
     fCntDown |-> fCntDown, rxWindow |-> rxWindow, rxDelay |-> rxDelay,
     rx1DROffset |-> rx1DROffset, rx2DR |-> rx2DR,
     adrInterval |-> adrInterval, lastRX |-> lastRX]

----------------------------------------------------------------------------
(* DataDownFrameContext and the frame SendDataDown builds *)

NoData == [present |-> FALSE, len |-> 0]
AppData(n) == [present |-> TRUE, len |-> n]

DataDownFrameContext(ack, fPort, macCommands, encrypt, confirmed, moreData, data) ==
    [ACK |-> ack, FPort |-> fPort, MACCommands |-> macCommands,
     EncryptMACCommands |-> encrypt, Confirmed |-> confirmed,
     MoreData |-> moreData, Data |-> data]

EmptyCtx == DataDownFrameContext(FALSE, 0, <<>>, FALSE, FALSE, FALSE, NoData)

\* Validate without the test for data on FPort 0
Validate_DataOnFPortZero(ctx) ==
    IF ctx.FPort > 0 /\ ctx.EncryptMACCommands THEN "ErrFPortMustBeZero"
    ELSE ""

\* DataDownFrameContext.Validate: "" when valid
Validate(ctx) ==
    IF ctx.FPort = 0 /\ ctx.Data.len > 0 THEN "ErrFPortMustNotBeZero"
    ELSE IF ctx.FPort > 0 /\ ctx.EncryptMACCommands THEN "ErrFPortMustBeZero"
    ELSE ""

\* FPort of a frame without the FPort field
NoFPort == -1

\* FRMPayload of a frame: nothing, application data (opaque to the network
\* server), or MAC commands encrypted with a key
FRMNone == [kind |-> "none", key |-> -1, cmds |-> <<>>, data |-> NoData]
FRMData(d) == [kind |-> "data", key |-> -1, cmds |-> <<>>, data |-> d]
FRMMac(cmds) == [kind |-> "mac", key |-> -1, cmds |-> cmds, data |-> NoData]

\* lorawan.PHYPayload.EncryptFRMPayload(key): only a MAC-command FRMPayload
\* is ever encrypted by the network server
EncryptFRMPayload(frm, key) ==
    IF frm.kind = "mac" THEN [frm EXCEPT !.key = key] ELSE frm

NoFrame ==
    [MType |-> "none", DevAddr |-> "", ADR |-> FALSE, ACK |-> FALSE,
     FPending |-> FALSE, FCnt |-> Zero32, FOpts |-> <<>>, FPort |-> NoFPort,
     FRMPayload |-> FRMNone, MIC |-> -1]

\* SendDataDown, lines 96-117: MHDR and FHDR
FrameHeader(ns, dataDown) ==
    [MType |-> IF dataDown.Confirmed THEN "ConfirmedDataDown"
                                     ELSE "UnconfirmedDataDown",
     DevAddr |-> ns.devAddr,
     ADR |-> ns.adrInterval # 0,
     ACK |-> dataDown.ACK,
     FPending |-> dataDown.MoreData,
     FCnt |-> ns.fCntDown,
     FOpts |-> <<>>, FPort |-> NoFPort, FRMPayload |-> FRMNone, MIC |-> -1]

\* PlaceMACCommands with EncryptMACCommands ignored: the MAC commands always
\* go to FOpts
PlaceMACCommands_AlwaysFOpts(phy, ns, dataDown) ==
    IF Len(dataDown.MACCommands) > 0
    THEN [phy EXCEPT !.FOpts = dataDown.MACCommands]
    ELSE phy

\* SendDataDown, lines 119-135: the MAC commands go to FRMPayload
\* (encrypted with the NwkSKey) or to FOpts
PlaceMACCommands(phy, ns, dataDown) ==
    IF Len(dataDown.MACCommands) > 0
    THEN IF dataDown.EncryptMACCommands
         THEN [phy EXCEPT !.FPort = dataDown.FPort,
                          !.FRMPayload = EncryptFRMPayload(
                               FRMMac(dataDown.MACCommands), ns.nwkSKey)]
         ELSE [phy EXCEPT !.FOpts = dataDown.MACCommands]
    ELSE phy

\* SendDataDown, lines 137-142: the application data
PlaceData(phy, dataDown) ==
    IF dataDown.FPort > 0
    THEN [phy EXCEPT !.FPort = dataDown.FPort,
                     !.FRMPayload = FRMData(dataDown.Data)]
    ELSE phy

\* SendDataDown, lines 96-146: the frame handed to the gateway
BuildFrame(ns, dataDown) ==
    [PlaceData(PlaceMACCommands(FrameHeader(ns, dataDown), ns, dataDown),
               dataDown)
        EXCEPT !.MIC = ns.nwkSKey]

\* AdvanceFCntDown with the increment left out
AdvanceFCntDown_NoIncrement(ns) == ns

\* SendDataDown, lines 156-158: the session SendDataDown saves after the
\* gateway accepted an unconfirmed frame
AdvanceFCntDown(ns) == [ns EXCEPT !.fCntDown = Inc32(ns.fCntDown)]

\* SendDataDown with the error of SendTXPacket ignored: the counter is
\* advanced and the session saved whether or not the gateway took the packet
SendDataDown_IgnoreSendError(ns, txInfo, dataDown, gwOK) ==
    LET verr == Validate(dataDown)
        phy  == [PlaceData(PlaceMACCommands(FrameHeader(ns, dataDown), ns,
                                            dataDown), dataDown)
                    EXCEPT !.MIC = ns.nwkSKey]
    IN  IF verr # ""
        THEN [err |-> verr, handed |-> FALSE, sent |-> FALSE,
              packet |-> [TXInfo |-> txInfo, PHYPayload |-> NoFrame],
              ns |-> ns, save |-> FALSE]
        ELSE IF ~dataDown.Confirmed
        THEN [err |-> "", handed |-> TRUE, sent |-> gwOK,
              packet |-> [TXInfo |-> txInfo, PHYPayload |-> phy],
              ns |-> [ns EXCEPT !.fCntDown = Inc32(ns.fCntDown)],
              save |-> TRUE]
        ELSE [err |-> "", handed |-> TRUE, sent |-> gwOK,
              packet |-> [TXInfo |-> txInfo, PHYPayload |-> phy],
              ns |-> ns, save |-> FALSE]

\* SendDataDown, lines 91-162, up to the session save: validate, build the
\* frame, hand it to the gateway (gwOK: SendTXPacket returns nil), and
\* decide whether the session must be saved
SendDataDown(ns, txInfo, dataDown, gwOK) ==
    LET verr == Validate(dataDown)
        phy  == BuildFrame(ns, dataDown)
    IN  IF verr # ""
        THEN [err |-> verr, handed |-> FALSE, sent |-> FALSE,
              packet |-> [TXInfo |-> txInfo, PHYPayload |-> NoFrame],
              ns |-> ns, save |-> FALSE]
        ELSE IF ~gwOK
        THEN [err |-> "send tx packet to gateway error", handed |-> TRUE,
              sent |-> FALSE,
              packet |-> [TXInfo |-> txInfo, PHYPayload |-> phy],
              ns |-> ns, save |-> FALSE]
        ELSE IF ~dataDown.Confirmed
        THEN [err |-> "", handed |-> TRUE, sent |-> TRUE,
              packet |-> [TXInfo |-> txInfo, PHYPayload |-> phy],
              ns |-> AdvanceFCntDown(ns), save |-> TRUE]
        ELSE [err |-> "", handed |-> TRUE, sent |-> TRUE,
              packet |-> [TXInfo |-> txInfo, PHYPayload |-> phy],
              ns |-> ns, save |-> FALSE]

----------------------------------------------------------------------------
(* TX parameters *)

\* the reception the response is sent back through (rxPacket.RXInfoSet[0]):
\* gateway MAC, uplink data rate (index in the band's table, or -1 for a
\* data rate the band does not know), frequency, timestamp (uint32, in
\* microseconds)
RXInfo(mac, dr, frequency, timestamp) ==
    [MAC |-> mac, DataRate |-> dr, Frequency |-> frequency,
     Timestamp |-> timestamp, CodeRate |-> "4/5"]

Freq1 == 868100000
RX2Frequency == 869525000
DefaultTXPower == 14

\* common.Band.ReceiveDelay1 / time.Microsecond
ReceiveDelay1 == 1000000
\* time.Second / time.Microsecond
SecondMicros == 1000000

\* highest RX1DROffset of the band
MaxRX1DROffset == 5

\* common.Band.GetRX1DataRate(uplinkDR, rx1DROffset): -1 for an error
GetRX1DataRate(uplinkDR, rx1DROffset) ==
    IF rx1DROffset > MaxRX1DROffset THEN -1
    ELSE IF uplinkDR - rx1DROffset < 0 THEN 0
    ELSE uplinkDR - rx1DROffset

NoTXInfo ==
    [MAC |-> "", Immediately |-> FALSE, Frequency |-> 0, Power |-> 0,
     DataRate |-> -1, CodeRate |-> "", Timestamp |-> Zero32]

\* RX1Timestamp with the session's RXDelay ignored
RX1Timestamp_IgnoreRXDelay(ns, rxInfo) ==
    Add32(rxInfo.Timestamp, ToU32(ReceiveDelay1))

\* lines 324-327 and 340-343: the RX1 timestamp
RX1Timestamp(ns, rxInfo) ==
    IF ns.rxDelay > 0
    THEN Add32(rxInfo.Timestamp, ToU32(ns.rxDelay * SecondMicros))
    ELSE Add32(rxInfo.Timestamp, ToU32(ReceiveDelay1))

\* getDataDownTXInfoAndDR: [err, txInfo, dr]
getDataDownTXInfoAndDR(ns, rxInfo) ==
    LET base == [NoTXInfo EXCEPT !.MAC = rxInfo.MAC,
                                 !.CodeRate = rxInfo.CodeRate,
                                 !.Power = DefaultTXPower]
    IN  IF ns.rxWindow = RX1
        THEN IF rxInfo.DataRate < 0
             THEN [err |-> "unknown data rate", txInfo |-> base, dr |-> 0]
             ELSE IF GetRX1DataRate(rxInfo.DataRate, ns.rx1DROffset) < 0
             THEN [err |-> "invalid rx1 dr offset", txInfo |-> base, dr |-> 0]
             ELSE [err |-> "",
                   txInfo |-> [base EXCEPT
                       !.DataRate = GetRX1DataRate(rxInfo.DataRate, ns.rx1DROffset),
                       !.Frequency = rxInfo.Frequency,
                       !.Timestamp = RX1Timestamp(ns, rxInfo)],
                   dr |-> GetRX1DataRate(rxInfo.DataRate, ns.rx1DROffset)]
        ELSE IF ns.rxWindow = RX2
        THEN IF ns.rx2DR > NumDataRates - 1
             THEN [err |-> "invalid rx2 dr", txInfo |-> base, dr |-> 0]
             ELSE [err |-> "",
                   txInfo |-> [base EXCEPT
                       !.DataRate = ns.rx2DR,
                       !.Frequency = RX2Frequency,
                       !.Timestamp = Add32(RX1Timestamp(ns, rxInfo), ToU32(SecondMicros))],
                   dr |-> ns.rx2DR]
        ELSE [err |-> "unknown RXWindow option", txInfo |-> base, dr |-> 0]

----------------------------------------------------------------------------
(* Application payload *)

\* what ctx.Application.GetDataDown returns: an error, a nil response, or a
\* response (FPort is a uint32 in the RPC message)
AppErr == [status |-> "err", FPort |-> 0, Data |-> NoData,
           Confirmed |-> FALSE, MoreData |-> FALSE]
AppNil == [status |-> "nil", FPort |-> 0, Data |-> NoData,
           Confirmed |-> FALSE, MoreData |-> FALSE]
AppResp(fPort, n, confirmed, moreData) ==
    [status |-> "ok", FPort |-> fPort, Data |-> AppData(n),
     Confirmed |-> confirmed, MoreData |-> moreData]

\* no txPayload (a nil *as.GetDataDownResponse)
NoTxPayload == [status |-> "none", FPort |-> 0, Data |-> NoData,
                Confirmed |-> FALSE, MoreData |-> FALSE]

\* getDataDownFromApplication without the test of the payload size
getDataDownFromApplication_AnySize(resp, dr) ==
    IF resp.status = "err" THEN NoTxPayload
    ELSE IF resp.status = "nil" \/ resp.FPort = 0 THEN NoTxPayload
    ELSE resp

\* getDataDownFromApplication(ctx, ns, dr), given the RPC's outcome
getDataDownFromApplication(resp, dr) ==
    IF resp.status = "err" THEN NoTxPayload
    ELSE IF resp.status = "nil" \/ resp.FPort = 0 THEN NoTxPayload
    ELSE IF resp.Data.len > MaxPayloadSize(dr) THEN NoTxPayload
    ELSE resp

----------------------------------------------------------------------------
(* SendUplinkResponse and HandlePushDataDown, up to the hand-over to the  *)
(* gateway                                                                 *)

ConfirmedDataUp == "ConfirmedDataUp"
UnconfirmedDataUp == "UnconfirmedDataUp"

\* the uplink: MHDR.MType, FCtrl.ADRACKReq, and the reception
RXPacket(mType, adrAckReq, rxInfo) ==
    [MType |-> mType, ADRACKReq |-> adrAckReq, RXInfo |-> rxInfo]

\* UplinkFrameContext with the ACK left at its zero value
UplinkFrameContext_NoACK(rxPacket, txPayload, sel, allowEncryptedMACCommands) ==
    LET macCommands == macQueueItemsToMACCommands(sel.items)
        c0 == [EmptyCtx EXCEPT !.MACCommands = macCommands]
        c1 == IF txPayload.status # "none"
              THEN [c0 EXCEPT !.Confirmed = txPayload.Confirmed,
                              !.MoreData = txPayload.MoreData,
                              !.FPort = U8(txPayload.FPort),
                              !.Data = txPayload.Data]
              ELSE c0
        c2 == IF sel.pending THEN [c1 EXCEPT !.MoreData = TRUE] ELSE c1
    IN  IF allowEncryptedMACCommands /\ sel.encrypted
        THEN [c2 EXCEPT !.EncryptMACCommands = TRUE]
        ELSE c2

\* SendUplinkResponse, lines 255-273: the frame context
UplinkFrameContext(rxPacket, txPayload, sel, allowEncryptedMACCommands) ==
    LET macCommands == macQueueItemsToMACCommands(sel.items)
        c0 == [EmptyCtx EXCEPT !.ACK = (rxPacket.MType = ConfirmedDataUp),
                               !.MACCommands = macCommands]
        c1 == IF txPayload.status # "none"
              THEN [c0 EXCEPT !.Confirmed = txPayload.Confirmed,
                              !.MoreData = txPayload.MoreData,
                              !.FPort = U8(txPayload.FPort),
                              !.Data = txPayload.Data]
              ELSE c0
        c2 == IF sel.pending THEN [c1 EXCEPT !.MoreData = TRUE] ELSE c1
    IN  IF allowEncryptedMACCommands /\ sel.encrypted
        THEN [c2 EXCEPT !.EncryptMACCommands = TRUE]
        ELSE c2

\* NoResponseNeeded without the ADRACKReq test
NoResponseNeeded_IgnoreADRACKReq(rxPacket, txPayload, ddCTX) ==
    /\ txPayload.status = "none"
    /\ ~ddCTX.ACK
    /\ Len(ddCTX.MACCommands) = 0

\* SendUplinkResponse, line 277: nothing to respond with
NoResponseNeeded(rxPacket, txPayload, ddCTX) ==
    /\ txPayload.status = "none"
    /\ ~ddCTX.ACK
    /\ Len(ddCTX.MACCommands) = 0
    /\ ~rxPacket.ADRACKReq

\* the record a call leaves of what it computed
Result(err, txPayload, read, sel, ddCTX, out) ==
    [err |-> err, txPayload |-> txPayload, read |-> read, items |-> sel.items,
     encrypted |-> sel.encrypted, pending |-> sel.pending, ddCTX |-> ddCTX,
     handed |-> out.handed, sent |-> out.sent, packet |-> out.packet,
     ns |-> out.ns, save |-> out.save]

NoSel == [items |-> <<>>, encrypted |-> FALSE, pending |-> FALSE]
NoOut(ns) == [err |-> "", handed |-> FALSE, sent |-> FALSE,
              packet |-> [TXInfo |-> NoTXInfo, PHYPayload |-> NoFrame],
              ns |-> ns, save |-> FALSE]

\* SendUplinkResponse, lines 224-284: from the TX parameters to the return
\* of SendDataDown's gateway hand-over.  appResp is what GetDataDown
\* returns, readOK whether ReadQueue succeeds and q what it reads, gwOK
\* whether the gateway accepts the packet.
SendUplinkResponse(ns, rxPacket, appResp, readOK, q, gwOK) ==
    LET tx == getDataDownTXInfoAndDR(ns, rxPacket.RXInfo)
        txPayload == getDataDownFromApplication(appResp, tx.dr)
        allowEncryptedMACCommands == (txPayload.status = "none")
        remainingPayloadSize ==
            IF txPayload.status # "none"
            THEN MaxPayloadSize(tx.dr) - txPayload.Data.len
            ELSE MaxPayloadSize(tx.dr)
        sel == getAndFilterMACQueueItems(q, allowEncryptedMACCommands,
                                         remainingPayloadSize)
        ddCTX == UplinkFrameContext(rxPacket, txPayload, sel,
                                    allowEncryptedMACCommands)
        out == SendDataDown(ns, tx.txInfo, ddCTX, gwOK)
    IN  IF tx.err # ""
        THEN Result("get data down txinfo error", NoTxPayload, <<>>, NoSel,
                    EmptyCtx, NoOut(ns))
        ELSE IF ~readOK
        THEN Result("get mac-commands error", txPayload, <<>>, NoSel,
                    EmptyCtx, NoOut(ns))
        ELSE IF NoResponseNeeded(rxPacket, txPayload, ddCTX)
        THEN Result("", txPayload, q, sel, ddCTX, NoOut(ns))
        ELSE Result(out.err, txPayload, q, sel, ddCTX, out)

\* the API request: confirmed, fPort (uint8), data
PushRequest(confirmed, fPort, n) ==
    [Confirmed |-> confirmed, FPort |-> fPort, Data |-> AppData(n)]

\* the request seen as a payload, for the call's record
PushPayload(req) ==
    [status |-> "push", FPort |-> req.FPort, Data |-> req.Data,
     Confirmed |-> req.Confirmed, MoreData |-> FALSE]

\* HandlePushDataDown, lines 190-197: RX2 parameters, sent immediately
PushTXInfo(ns, dr) ==
    [MAC |-> ns.lastRX[1], Immediately |-> TRUE, Frequency |-> RX2Frequency,
     Power |-> DefaultTXPower, DataRate |-> dr, CodeRate |-> "4/5",
     Timestamp |-> Zero32]

\* HandlePushDataDown, lines 168-208
HandlePushDataDown(ns, req, readOK, q, gwOK) ==
    LET dr == ns.rx2DR
        remainingPayloadSize == MaxPayloadSize(dr) - req.Data.len
        sel == getAndFilterMACQueueItems(q, FALSE, remainingPayloadSize)
        ddCTX == [EmptyCtx EXCEPT
                     !.FPort = req.FPort, !.Data = req.Data,
                     !.Confirmed = req.Confirmed,
                     !.MACCommands = macQueueItemsToMACCommands(sel.items)]
        out == SendDataDown(ns, PushTXInfo(ns, dr), ddCTX, gwOK)
    IN  IF Len(ns.lastRX) = 0
        THEN Result("ErrNoLastRXInfoSet", PushPayload(req), <<>>, NoSel,
                    EmptyCtx, NoOut(ns))
        ELSE IF dr > NumDataRates - 1
        THEN Result("ErrInvalidDataRate", PushPayload(req), <<>>, NoSel,
                    EmptyCtx, NoOut(ns))
        ELSE IF req.Data.len > MaxPayloadSize(dr)
        THEN Result("ErrMaxPayloadSizeExceeded", PushPayload(req), <<>>,
                    NoSel, EmptyCtx, NoOut(ns))
        ELSE IF ~readOK
        THEN Result("get mac-commands error", PushPayload(req), <<>>, NoSel,
                    EmptyCtx, NoOut(ns))
        ELSE Result(out.err, PushPayload(req), q, sel, ddCTX, out)

----------------------------------------------------------------------------
(* Join handler *)

DevAddrs == {"a1"}

\* what ctx.Application.JoinRequest returns: an error, or the JoinAccept
\* with the session parameters; CFList is modelled by its length and the
\* returned PHYPayload by whether it unmarshals
JoinErr == [status |-> "err", RxWindow |-> RX1, RxDelay |-> 0,
            Rx1DROffset |-> 0, Rx2DR |-> 0, AdrInterval |-> 0,
            CFListLen |-> 0, phyOK |-> TRUE]
JoinResp(rxWindow, rxDelay, rx1DROffset, rx2DR, adrInterval, cfListLen, phyOK) ==
    [status |-> "ok", RxWindow |-> rxWindow, RxDelay |-> rxDelay,
     Rx1DROffset |-> rx1DROffset, Rx2DR |-> rx2DR,
     AdrInterval |-> adrInterval, CFListLen |-> cfListLen, phyOK |-> phyOK]

\* len(lorawan.CFList)
CFListSize == 5

\* JoinCheck without the test of the CFList size
JoinCheck_AnyCFList(devAddrOK, joinResp) ==
    IF ~devAddrOK THEN "get random DevAddr error"
    ELSE IF joinResp.status = "err" THEN "application server join-request error"
    ELSE IF ~joinResp.phyOK THEN "downlink PHYPayload unmarshal error"
    ELSE ""

\* handleCollectedJoinRequestPackets, lines 520-560: "" when the handler
\* goes on to install the session
JoinCheck(devAddrOK, joinResp) ==
    IF ~devAddrOK THEN "get random DevAddr error"
    ELSE IF joinResp.status = "err" THEN "application server join-request error"
    ELSE IF joinResp.CFListLen > CFListSize THEN "max CFlist size"
    ELSE IF ~joinResp.phyOK THEN "downlink PHYPayload unmarshal error"
    ELSE ""

\* lines 535-560: the calls of ctx.Application.HandleError(OTAA) the
\* handler makes before it returns
JoinHandleErrors(devAddrOK, joinResp) ==
    IF ~devAddrOK \/ joinResp.status = "err" THEN 0
    ELSE IF joinResp.CFListLen > CFListSize THEN 1
    ELSE IF ~joinResp.phyOK THEN 1
    ELSE 0

\* the locals of the join handler a call keeps: the DevAddr sent to the
\* application server, its response, the HandleError calls made, and the
\* id of the last MAC command enqueued before the handler ran
JoinLocals(devAddr, joinResp, handleErrors, lastId) ==
    [devAddr |-> devAddr, resp |-> joinResp, handleErrors |-> handleErrors,
     lastId |-> lastId]

NoJoin == JoinLocals("", JoinErr, 0, 0)

\* lines 565-581: the fresh session
JoinSession(devAddr, nwkSKey, joinResp, rxInfoSet) ==
    NodeSession(devAddr, nwkSKey, 0, Zero32, joinResp.RxWindow,
                U8(joinResp.RxDelay), U8(joinResp.Rx1DROffset),
                U8(joinResp.Rx2DR), joinResp.AdrInterval, rxInfoSet)

\* downlink.SendJoinAcceptResponse: the JoinAccept the application server
\* returned, sent through the first reception's gateway
JoinAcceptPacket(ns) ==
    [TXInfo |-> [NoTXInfo EXCEPT !.MAC = ns.lastRX[1]],
     PHYPayload |-> [NoFrame EXCEPT !.MType = "JoinAccept"]]

----------------------------------------------------------------------------
(* Inputs *)

\* the reception of the uplinks of the model: DR0, timestamp less than a
\* second before the uint32 wrap
TheRXInfo == RXInfo(GW1, 0, Freq1, U32(Half - 1, 0))

RXPackets ==
    { RXPacket(ConfirmedDataUp, FALSE, TheRXInfo),
      RXPacket(UnconfirmedDataUp, FALSE, TheRXInfo),
      RXPacket(UnconfirmedDataUp, TRUE, TheRXInfo) }

AppResponses ==
    { AppErr, AppNil,
      AppResp(0, 4, FALSE, FALSE),
      AppResp(1, 4, FALSE, FALSE),
      AppResp(1, 40, TRUE, TRUE),
      AppResp(1, 52, FALSE, FALSE),
      AppResp(256, 4, FALSE, FALSE),
      AppResp(257, 4, FALSE, FALSE),
      AppResp(256, 0, FALSE, FALSE) }

PushRequests ==
    { PushRequest(FALSE, 1, 4),
      PushRequest(TRUE, 1, 40),
      PushRequest(FALSE, 0, 4),
      PushRequest(FALSE, 0, 0),
      PushRequest(FALSE, 1, 52) }

JoinResponses ==
    { JoinErr,
      JoinResp(RX1, 0, 0, 0, 0, 0, TRUE),
      JoinResp(RXOther, 1, 0, 8, 0, 5, TRUE),
      JoinResp(RX2, 2, 0, 8, 0, 0, TRUE),
      JoinResp(RX1, 256, 0, 0, 0, 0, TRUE),
      JoinResp(RX1, 0, 0, 0, 0, 6, TRUE),
      JoinResp(RX1, 0, 0, 0, 0, 0, FALSE) }

\* the sessions the device may have before the first call
InitSessions ==
    { NodeSession("a0", 0, 9, ToU32(5), RX1, 0, 0, 0, 0, <<GW1>>),
      NodeSession("a0", 0, 9, MaxU32, RX2, 2, 0, 0, 0, <<>>) }

----------------------------------------------------------------------------
(* Calls *)

NoResult(ns) == Result("", NoTxPayload, <<>>, NoSel, EmptyCtx, NoOut(ns))

NoRXPacket == RXPacket("none", FALSE, TheRXInfo)

\* no session (the locals of a task that runs nothing)
NoSession == NodeSession("", -1, 0, Zero32, RX1, 0, 0, 0, 0, <<>>)

Idle ==
    [pc |-> "idle", kind |-> "none", ns0 |-> NoSession, rx |-> NoRXPacket,
     res |-> NoResult(NoSession), todo |-> <<>>, deleted |-> <<>>,
     saved |-> FALSE, join |-> NoJoin, app |-> AppNil]

\* ToDelete restricted to the items whose commands went into the frame
ToDelete_OnlyTransmitted(res) == SelectSeq(res.items, LAMBDA qi : qi.ok)

\* lines 211 and 287: the items the delete loop ranges over
ToDelete(res) == res.items

\* AfterSend with the error of SendDataDown ignored: the delete loop runs
\* whatever SendDataDown returned
AfterSend_DeleteRegardless(res) ==
    IF res.save THEN "save"
    ELSE IF ToDelete(res) # <<>> THEN "delete"
    ELSE "done"

\* where a call goes after the gateway hand-over: the session save of
\* SendDataDown (lines 156-162), then the deletes of the selected items
\* (lines 211-215 and 287-291)
AfterSend(res) ==
    IF res.err # "" THEN "done"
    ELSE IF res.save THEN "save"
    ELSE IF res.sent /\ ToDelete(res) # <<>> THEN "delete"
    ELSE "done"

AfterSave(res) ==
    IF ToDelete(res) # <<>> THEN "delete" ELSE "done"

\* Go error values (github.com/pkg/errors): the root error, and the messages
\* it was wrapped with, outermost first; Nil is the nil error
Nil == [cause |-> "", wraps |-> <<>>]
New(message) == [cause |-> message, wraps |-> <<>>]
Wrap(err, message) == [err EXCEPT !.wraps = <<message>> \o @]

\* errors.Cause: the innermost error of the chain
Cause(err) == [err EXCEPT !.wraps = <<>>]

RECURSIVE Join(_)
Join(msgs) == IF msgs = <<>> THEN <<>> ELSE <<Head(msgs), ": ">> \o Join(Tail(msgs))

\* err.Error(): the messages of the chain, outermost first
ErrorText(err) == Join(err.wraps) \o <<err.cause>>

\* the gateways that may receive the JoinRequest
Gateways == {"gw1", "gw2", "gw3"}

\* the deduplication state of a frame no gateway has delivered yet: the
\* shared list of receptions and the handler lock (in the cache), where each
\* reception's collectJoinRequestPacket stands, the receptions added before
\* the collection window closed, and the RXInfoSets the handler was called
\* with
NoReceptions ==
    [list |-> <<>>, lock |-> FALSE, pc |-> [g \in Gateways |-> "idle"],
     within |-> {}, closed |-> FALSE, handled |-> <<>>]

\* no error converted yet
NoRPC == [err |-> Nil, status |-> [code |-> "OK", msg |-> ""]]

TypeOK ==
    /\ calls \in 0..MaxCalls
    /\ nextId \in 0..MaxItems
    /\ joins \in 0..MaxCalls
    /\ Len(queue) <= MaxItems
    /\ \A t \in Tasks :
         call[t].pc \in {"idle", "run", "save", "delete", "flush", "done"}

Init ==
    /\ store \in InitSessions
    /\ queue = <<>>
    /\ call = [t \in Tasks |-> Idle]
    /\ calls = 0
    /\ nextId = 0
    /\ joins = 0
    /\ dedup = NoReceptions
    /\ rpc = NoRPC

\* the next task to start a call
Free(t) ==
    /\ calls < MaxCalls
    /\ call[t].pc = "idle"
    /\ \A u \in Tasks : u < t => call[u].pc # "idle"

\* maccommand.AddToQueue: the network controller or the MAC engine
\* enqueues a command
Enqueue(shapes) ==
    /\ nextId < MaxItems
    /\ \E sh \in shapes :
         queue' = Append(queue, Item(nextId + 1, sh.len, sh.frm, sh.ok))
    /\ nextId' = nextId + 1
    /\ UNCHANGED <<store, call, calls, joins, dedup, rpc>>

\* the uplink pipeline accepts a data-up frame: it loads the session,
\* advances FCntUp, records the receptions, saves the session and calls
\* SendUplinkResponse with it
StartUplink(t) ==
    /\ Free(t)
    /\ LET ns == [store EXCEPT !.fCntUp = store.fCntUp + 1,
                               !.lastRX = <<GW1>>]
       IN  /\ store' = ns
           /\ call' = [call EXCEPT ![t] =
                 [Idle EXCEPT !.pc = "run", !.kind = "uplink", !.ns0 = ns,
                              !.res = NoResult(ns)]]
    /\ calls' = calls + 1
    /\ UNCHANGED <<queue, nextId, joins, dedup, rpc>>

\* the API loads the session of the DevEUI and calls HandlePushDataDown
StartPush(t) ==
    /\ Free(t)
    /\ call' = [call EXCEPT ![t] =
          [Idle EXCEPT !.pc = "run", !.kind = "push", !.ns0 = store,
                       !.res = NoResult(store)]]
    /\ calls' = calls + 1
    /\ UNCHANGED <<store, queue, nextId, joins, dedup, rpc>>

\* the part of a call that ends with the hand-over to the gateway
Handed(t, rx, app, res) ==
    /\ call' = [call EXCEPT ![t].rx = rx, ![t].app = app, ![t].res = res,
                            ![t].pc = AfterSend(res),
                            ![t].todo = IF AfterSend(res) = "done"
                                        THEN <<>> ELSE ToDelete(res)]
    /\ UNCHANGED <<store, queue, calls, nextId, joins, dedup, rpc>>

\* SendUplinkResponse, lines 224-284
UplinkTransmit(t, rxPackets, appResponses) ==
    /\ call[t].pc = "run"
    /\ call[t].kind = "uplink"
    /\ \E rx \in rxPackets, app \in appResponses, readOK, gwOK \in BOOLEAN :
         LET res == SendUplinkResponse(call[t].ns0, rx, app, readOK,
                                       queue, gwOK)
         IN  \* GetDataDown is called once the TX parameters are there
             Handed(t, rx,
                    IF res.err = "get data down txinfo error" THEN AppNil
                                                              ELSE app,
                    res)

\* HandlePushDataDown, lines 168-208
PushTransmit(t, pushRequests) ==
    /\ call[t].pc = "run"
    /\ call[t].kind = "push"
    /\ \E req \in pushRequests, readOK, gwOK \in BOOLEAN :
         Handed(t, NoRXPacket, AppNil,
                HandlePushDataDown(call[t].ns0, req, readOK, queue, gwOK))

\* SendDataDown, lines 159-161: session.SaveNodeSession(*ns)
SaveNodeSession(t) ==
    /\ call[t].pc = "save"
    /\ \/ /\ store' = call[t].res.ns
          /\ call' = [call EXCEPT ![t].saved = TRUE,
                                  ![t].pc = AfterSave(call[t].res)]
       \/ /\ call' = [call EXCEPT ![t].res.err = "save node-session error",
                                  ![t].pc = "done"]
          /\ UNCHANGED store
    /\ UNCHANGED <<queue, calls, nextId, joins, dedup, rpc>>

\* lines 211-215 and 287-291: one maccommand.DeleteQueueItem of the loop
DeleteItem(t) ==
    /\ call[t].pc = "delete"
    /\ \/ /\ queue' = DeleteQueueItem(queue, Head(call[t].todo))
          /\ call' = [call EXCEPT
                ![t].deleted = Append(call[t].deleted, Head(call[t].todo)),
                ![t].todo = Tail(call[t].todo),
                ![t].pc = IF Tail(call[t].todo) = <<>> THEN "done"
                                                        ELSE "delete"]
       \/ /\ call' = [call EXCEPT
                ![t].res.err = "delete mac-command queue item error",
                ![t].pc = "done"]
          /\ UNCHANGED queue
    /\ UNCHANGED <<store, calls, nextId, joins, dedup, rpc>>

\* handleCollectedJoinRequestPackets, lines 496-585: up to and including
\* the save of the fresh session
handleCollectedJoinRequestPackets(t, joinResponses, rxInfoSet) ==
    /\ Free(t)
    /\ calls' = calls + 1
    /\ \E devAddrOK, saveOK \in BOOLEAN, devAddr \in DevAddrs,
          joinResp \in joinResponses :
         LET err == JoinCheck(devAddrOK, joinResp)
             ns  == JoinSession(devAddr, joins + 1, joinResp, rxInfoSet)
             loc == JoinLocals(IF devAddrOK THEN devAddr ELSE "",
                               IF devAddrOK THEN joinResp ELSE JoinErr,
                               JoinHandleErrors(devAddrOK, joinResp), nextId)
         IN  IF err # ""
             THEN /\ call' = [call EXCEPT ![t] =
                        [Idle EXCEPT !.pc = "done", !.kind = "join",
                                     !.join = loc,
                                     !.res.err = err]]
                  /\ UNCHANGED <<store, joins>>
             ELSE IF ~saveOK
             THEN /\ call' = [call EXCEPT ![t] =
                        [Idle EXCEPT !.pc = "done", !.kind = "join",
                                     !.ns0 = ns, !.join = loc,
                                     !.res = [NoResult(ns) EXCEPT
                                        !.err = "save node-session error"]]]
                  /\ UNCHANGED <<store, joins>>
             ELSE /\ store' = ns
                  /\ joins' = joins + 1
                  /\ call' = [call EXCEPT ![t] =
                        [Idle EXCEPT !.pc = "flush", !.kind = "join",
                                     !.ns0 = ns, !.join = loc,
                                     !.res = NoResult(ns),
                                     !.saved = TRUE]]
    /\ UNCHANGED <<queue, nextId, rpc>>

\* the join handler called for a JoinRequest one gateway received
JoinInstall(t, joinResponses) ==
    /\ handleCollectedJoinRequestPackets(t, joinResponses, <<GW1>>)
    /\ UNCHANGED <<dedup, rpc>>

\* lines 587-595: maccommand.FlushQueue, then SendJoinAcceptResponse
JoinFlush(t) ==
    /\ call[t].pc = "flush"
    /\ \E flushOK, gwOK \in BOOLEAN :
         IF ~flushOK
         THEN /\ call' = [call EXCEPT
                    ![t].res.err = "flush mac-command queue error",
                    ![t].pc = "done"]
              /\ UNCHANGED queue
         ELSE /\ queue' = <<>>
              /\ call' = [call EXCEPT
                    ![t].res.err = IF gwOK THEN ""
                                   ELSE "send join-accept response error",
                    ![t].res.handed = TRUE,
                    ![t].res.sent = gwOK,
                    ![t].res.packet = JoinAcceptPacket(call[t].ns0),
                    ![t].pc = "done"]
    /\ UNCHANGED <<store, calls, nextId, joins, dedup, rpc>>

\* the call returns to its caller and the task is free again
Return(t) ==
    /\ call[t].pc = "done"
    /\ call' = [call EXCEPT ![t] = Idle]
    /\ UNCHANGED <<store, queue, calls, nextId, joins, dedup, rpc>>

----------------------------------------------------------------------------
(* One call at a time: every input of the model, calls one after another *)

Next ==
    \/ Enqueue(ItemShapes)
    \/ StartUplink(1)
    \/ StartPush(1)
    \/ UplinkTransmit(1, RXPackets, AppResponses)
    \/ PushTransmit(1, PushRequests)
    \/ SaveNodeSession(1)
    \/ DeleteItem(1)
    \/ JoinInstall(1, JoinResponses)
    \/ JoinFlush(1)
    \/ Return(1)

Spec == Init /\ [][Next]_vars

----------------------------------------------------------------------------
(* Concurrent calls: one call per task, interleaved at the cache accesses *)

ConcItemShapes ==
    { [len |-> 5,  frm |-> FALSE, ok |-> TRUE],
      [len |-> 30, frm |-> TRUE,  ok |-> TRUE] }

ConcRXPackets ==
    { RXPacket(ConfirmedDataUp, FALSE, TheRXInfo),
      RXPacket(UnconfirmedDataUp, FALSE, TheRXInfo) }

ConcAppResponses ==
    { AppNil, AppResp(1, 4, FALSE, FALSE), AppResp(1, 40, TRUE, TRUE) }

ConcPushRequests ==
    { PushRequest(FALSE, 1, 4), PushRequest(TRUE, 1, 40) }

ConcJoinResponses ==
    { JoinErr, JoinResp(RX1, 0, 0, 0, 0, 0, TRUE) }

ConcNext ==
    \/ Enqueue(ConcItemShapes)
    \/ \E t \in Tasks : StartUplink(t)
    \/ \E t \in Tasks : StartPush(t)
    \/ \E t \in Tasks : UplinkTransmit(t, ConcRXPackets, ConcAppResponses)
    \/ \E t \in Tasks : PushTransmit(t, ConcPushRequests)
    \/ \E t \in Tasks : SaveNodeSession(t)
    \/ \E t \in Tasks : DeleteItem(t)
    \/ \E t \in Tasks : JoinInstall(t, ConcJoinResponses)
    \/ \E t \in Tasks : JoinFlush(t)

ConcSpec == Init /\ [][ConcNext]_vars

----------------------------------------------------------------------------
(* One JoinRequest received by several gateways: each reception runs
   collectJoinRequestPacket, interleaved with the others at the cache
   accesses and at the collection-window sleep *)

\* collectAndCallOnce, reception g appends its RXInfo to the shared list of
\* the frame; a reception is within the collection window when it is
\* appended before the sleeping caller wakes up
CollectAppend(g) ==
    /\ dedup.pc[g] = "idle"
    /\ dedup' = [dedup EXCEPT
                    !.list = Append(@, g),
                    !.pc[g] = "appended",
                    !.within = IF dedup.closed THEN @ ELSE @ \cup {g}]
    /\ UNCHANGED <<store, queue, call, calls, nextId, joins, rpc>>

\* collectAndCallOnce, reception g tries the one-shot handler lock: the
\* caller that newly acquires it sleeps for the collection window, every
\* other caller returns
CollectLock(g) ==
    /\ dedup.pc[g] = "appended"
    /\ dedup' = [dedup EXCEPT
                    !.lock = TRUE,
                    !.pc[g] = IF dedup.lock THEN "returned" ELSE "sleeping"]
    /\ UNCHANGED <<store, queue, call, calls, nextId, joins, rpc>>

\* collectAndCallOnce, the sleeping caller wakes up when the collection
\* window closes, reads the list back and calls the handler with it
CollectCall(g, handler(_)) ==
    /\ dedup.pc[g] = "sleeping"
    /\ dedup' = [dedup EXCEPT
                    !.closed = TRUE,
                    !.pc[g] = "returned",
                    !.handled = Append(@, dedup.list)]
    /\ handler(dedup.list)

collectAndCallOnce(g, handler(_)) ==
    \/ CollectAppend(g)
    \/ CollectLock(g)
    \/ CollectCall(g, handler)

\* every reception calls the handler itself, with its own RXInfo
collectJoinRequestPacket_CallDirectly(g, t, joinResponses) ==
    /\ dedup.pc[g] = "idle"
    /\ dedup' = [dedup EXCEPT
                    !.list = Append(@, g),
                    !.pc[g] = "returned",
                    !.within = @ \cup {g},
                    !.closed = TRUE,
                    !.handled = Append(@, <<g>>)]
    /\ handleCollectedJoinRequestPackets(t, joinResponses, <<g>>)

\* lines 489-493: collectJoinRequestPacket hands the reception to
\* collectAndCallOnce with handleCollectedJoinRequestPackets as the handler
collectJoinRequestPacket(g, t, joinResponses) ==
    collectAndCallOnce(g,
        LAMBDA rxInfoSet :
            handleCollectedJoinRequestPackets(t, joinResponses, rxInfoSet))

DedupNext ==
    \/ Enqueue(ConcItemShapes)
    \/ \E g \in Gateways, t \in Tasks :
           collectJoinRequestPacket(g, t, JoinResponses)
    \/ \E t \in Tasks : JoinFlush(t)

DedupSpec == Init /\ [][DedupNext]_vars

----------------------------------------------------------------------------
(* The API: the errors of its calls are returned as gRPC statuses *)

\* errors.go, lines 13-27: the errToCode table
errToCode ==
    [ ErrFPortMustNotBeZero |-> "InvalidArgument",
      ErrFPortMustBeZero |-> "InvalidArgument",
      ErrNoLastRXInfoSet |-> "FailedPrecondition",
      ErrInvalidDataRate |-> "Internal",
      ErrMaxPayloadSizeExceeded |-> "InvalidArgument",
      gateway_ErrDoesNotExist |-> "NotFound",
      gateway_ErrAlreadyExists |-> "AlreadyExists",
      gateway_ErrInvalidAggregationInterval |-> "InvalidArgument",
      gateway_ErrInvalidName |-> "InvalidArgument",
      session_ErrDoesNotExistOrFCntOrMICInvalid |-> "NotFound",
      session_ErrDoesNotExist |-> "NotFound" ]

\* errToRPCError looking the error itself up, not its cause
errToRPCError_NoCause(err) ==
    [code |-> IF err.wraps = <<>> /\ err.cause \in DOMAIN errToCode
              THEN errToCode[err.cause] ELSE "Unknown",
     msg |-> ErrorText(Cause(err))]

\* errors.go, lines 29-36: errToRPCError
errToRPCError(err) ==
    LET cause == Cause(err)
    IN  [code |-> IF cause.cause \in DOMAIN errToCode
                  THEN errToCode[cause.cause] ELSE "Unknown",
         msg |-> ErrorText(cause)]

\* the error HandlePushDataDown returns (lines 168-218), with the wrapping
\* of SendDataDown (lines 91-162) and the new error that
\* getAndFilterMACQueueItems makes of a failing ReadQueue (line 408)
PushError(err) ==
    IF err = "" THEN Nil
    ELSE IF err = "ErrNoLastRXInfoSet" THEN New(err)
    ELSE IF err = "ErrInvalidDataRate" THEN Wrap(New(err), "dr")
    ELSE IF err = "ErrMaxPayloadSizeExceeded" THEN Wrap(New(err), "max")
    ELSE IF err = "get mac-commands error"
    THEN Wrap(New("read mac-payload tx queue error"), err)
    ELSE IF err \in {"ErrFPortMustNotBeZero", "ErrFPortMustBeZero"}
    THEN Wrap(Wrap(New(err), "validation error"), "send data down error")
    ELSE IF err = "send tx packet to gateway error"
    THEN Wrap(Wrap(New("gateway backend error"), err), "send data down error")
    ELSE IF err = "save node-session error"
    THEN Wrap(Wrap(New("cache error"), err), "send data down error")
    ELSE Wrap(New("cache error"), err)

\* the API returns from a push request: the error of HandlePushDataDown,
\* if any, is returned as errToRPCError(err)
PushRespond(t) ==
    /\ call[t].kind = "push"
    /\ call[t].pc = "done"
    /\ LET err == PushError(call[t].res.err)
       IN  rpc' = IF err = Nil THEN NoRPC
                  ELSE [err |-> err, status |-> errToRPCError(err)]
    /\ call' = [call EXCEPT ![t] = Idle]
    /\ UNCHANGED <<store, queue, calls, nextId, joins, dedup>>

\* the deepest chain of wrappings of the errors of the other API calls
MaxWraps == 2

RECURSIVE WrapTimes(_, _)
WrapTimes(err, n) ==
    IF n = 0 THEN err ELSE Wrap(WrapTimes(err, n - 1), "wrapped")

\* the root errors of the API's calls: those of the table, and others
RootCauses ==
    DOMAIN errToCode \cup {"cache error", "context deadline exceeded"}

\* any other API call fails, and its error is returned as errToRPCError(err)
\* (one API call at a time)
CallFails ==
    /\ \A t \in Tasks : call[t].pc = "idle"
    /\ \E cause \in RootCauses, n \in 0..MaxWraps :
         LET err == WrapTimes(New(cause), n)
         IN  rpc' = [err |-> err, status |-> errToRPCError(err)]
    /\ UNCHANGED <<store, queue, call, calls, nextId, joins, dedup>>

ApiNext ==
    \/ Enqueue(ConcItemShapes)
    \/ StartPush(1)
    \/ PushTransmit(1, PushRequests)
    \/ SaveNodeSession(1)
    \/ DeleteItem(1)
    \/ PushRespond(1)
    \/ CallFails

ApiSpec == Init /\ [][ApiNext]_vars

----------------------------------------------------------------------------
(* The device keeps sending uplinks, and every gateway send and every cache
   operation succeeds *)

\* the items the network controller enqueues: a MAC command, bytes that do
\* not decode into a MAC command, and a command longer than FOpts
LiveItemShapes ==
    { [len |-> 5,  frm |-> FALSE, ok |-> TRUE],
      [len |-> 5,  frm |-> FALSE, ok |-> FALSE],
      [len |-> 16, frm |-> FALSE, ok |-> TRUE] }

LiveAppResponses == { AppNil, AppResp(1, 4, FALSE, FALSE) }

\* SendUplinkResponse with ReadQueue and SendTXPacket succeeding
LiveTransmit ==
    /\ UplinkTransmit(1, ConcRXPackets, LiveAppResponses)
    /\ call'[1].res.err = ""
    /\ call'[1].res.handed => call'[1].res.sent

\* SaveNodeSession succeeding
LiveSave == SaveNodeSession(1) /\ call'[1].res.err = ""

\* DeleteQueueItem succeeding
LiveDelete == DeleteItem(1) /\ call'[1].res.err = ""

\* the call returns and the next uplink can be accepted; the frame
\* counters, which the handling of the MAC queue never reads, are set back,
\* so that the uplinks go on forever in a finite state space
LiveReturn ==
    /\ call[1].pc = "done"
    /\ call' = [call EXCEPT ![1] = Idle]
    /\ calls' = 0
    /\ store' = [store EXCEPT !.fCntUp = 0, !.fCntDown = Zero32]
    /\ UNCHANGED <<queue, nextId, joins, dedup, rpc>>

LiveNext ==
    \/ Enqueue(LiveItemShapes)
    \/ StartUplink(1)
    \/ LiveTransmit
    \/ LiveSave
    \/ LiveDelete
    \/ LiveReturn

\* every uplink is followed by another, and every call runs to its end
LiveSpec ==
    /\ Init
    /\ [][LiveNext]_vars
    /\ WF_vars(StartUplink(1))
    /\ WF_vars(LiveTransmit)
    /\ WF_vars(LiveSave)
    /\ WF_vars(LiveDelete)
    /\ WF_vars(LiveReturn)

----------------------------------------------------------------------------
(* Properties *)

\* the task runs, or has run, a downlink call
Downlink(t) == call[t].kind \in {"uplink", "push"}

\* the call is past its hand-over to the gateway (or its decision not to
\* transmit, or the error that ended it before)
Past(t) == call[t].pc \in {"save", "delete", "done"}

\* the call is past SendDataDown
PastSave(t) == call[t].pc \in {"delete", "done"}

\* SendUplinkResponse got its TX parameters and read the MAC queue
Assembled(t) ==
    /\ call[t].kind = "uplink"
    /\ Past(t)
    /\ call[t].res.err \notin {"get data down txinfo error",
                               "get mac-commands error"}

\* the call changed neither the stored session nor the MAC queue
Untouched(t) ==
    ~call[t].saved /\ call[t].deleted = <<>> /\ call[t].todo = <<>>

\* the frame of the call's packet, and the MAC commands it carries
Frame(t) == call[t].res.packet.PHYPayload
Carried(t) == Frame(t).FOpts \o Frame(t).FRMPayload.cmds

\* C1, as claimed: a SendUplinkResponse that got its TX parameters and read
\* the MAC queue hands a packet to the gateway iff the application returned
\* a payload, or the filtered selection is non-empty, or the uplink is
\* confirmed, or it has ADRACKReq set; otherwise it changes nothing.
C1_Original ==
    \A t \in Tasks : Assembled(t) =>
        LET r == call[t].res
            warranted == \/ r.txPayload.status = "ok"
                         \/ r.items # <<>>
                         \/ call[t].rx.MType = ConfirmedDataUp
                         \/ call[t].rx.ADRACKReq
        IN  /\ r.handed <=> warranted
            /\ ~warranted => Untouched(t)

\* C1, amended: the packet is handed over iff the application returned a
\* payload, or at least one selected item decodes into a MAC command, or
\* the uplink is confirmed, or it has ADRACKReq set, and the payload does
\* not fail validation (data with an FPort that is 0 as a uint8); a call
\* that hands nothing over changes neither the session nor the queue.
C1_Responds ==
    \A t \in Tasks : Assembled(t) =>
        LET r == call[t].res
            warranted == \/ r.txPayload.status = "ok"
                         \/ \E i \in 1..Len(r.items) : r.items[i].ok
                         \/ call[t].rx.MType = ConfirmedDataUp
                         \/ call[t].rx.ADRACKReq
            rejected == /\ r.txPayload.status = "ok"
                        /\ r.txPayload.FPort % 256 = 0
                        /\ r.txPayload.Data.len > 0
        IN  /\ r.handed <=> (warranted /\ ~rejected)
            /\ ~r.handed => Untouched(t)
            /\ ~r.handed /\ ~rejected => r.err = ""

\* C1, witness: an unconfirmed uplink without ADRACKReq and without
\* application payload is answered because a queued MAC command decodes,
\* next to a selected item that does not
C1_Witness ==
    \E t \in Tasks :
        /\ Assembled(t)
        /\ call[t].res.handed
        /\ call[t].res.txPayload.status = "none"
        /\ call[t].rx.MType = UnconfirmedDataUp
        /\ ~call[t].rx.ADRACKReq
        /\ \E i \in 1..Len(call[t].res.items) : ~call[t].res.items[i].ok

\* the call handed an unconfirmed / a confirmed data frame to the gateway
\* and the gateway accepted it
SentUnconfirmed(t) ==
    Downlink(t) /\ call[t].res.sent /\ ~call[t].res.ddCTX.Confirmed
SentConfirmed(t) ==
    Downlink(t) /\ call[t].res.sent /\ call[t].res.ddCTX.Confirmed

\* C2, as claimed: a transmitted frame carries the FCntDown of the session
\* the call was given; once SendDataDown is over the stored FCntDown is
\* that value plus 1 for an unconfirmed frame, and a confirmed frame saves
\* no session.
C2_Original ==
    \A t \in Tasks :
        /\ Downlink(t) /\ call[t].res.sent =>
               Frame(t).FCnt = call[t].ns0.fCntDown
        /\ SentUnconfirmed(t) /\ PastSave(t) =>
               store.fCntDown = Succ(call[t].ns0.fCntDown)
        /\ SentConfirmed(t) =>
               ~call[t].saved /\ store.fCntDown = call[t].ns0.fCntDown

\* C2, amended: a transmitted frame carries the FCntDown of the session the
\* call was given; once SendDataDown is over the stored FCntDown is that
\* value plus 1 modulo 2^32 for an unconfirmed frame whose SaveNodeSession
\* succeeded, and is unchanged for an unconfirmed frame whose
\* SaveNodeSession failed (SendDataDown returns that error) and for a
\* confirmed frame, which saves no session.
C2_FCntDown ==
    \A t \in Tasks :
        /\ Downlink(t) /\ call[t].res.sent =>
               Frame(t).FCnt = call[t].ns0.fCntDown
        /\ SentUnconfirmed(t) /\ PastSave(t) /\ call[t].saved =>
               store = [call[t].ns0 EXCEPT
                           !.fCntDown = Add32(call[t].ns0.fCntDown, ToU32(1))]
        /\ SentUnconfirmed(t) /\ PastSave(t) /\ ~call[t].saved =>
               /\ call[t].res.err = "save node-session error"
               /\ store = call[t].ns0
        /\ SentConfirmed(t) =>
               ~call[t].saved /\ store = call[t].ns0

\* C2, witness: an unconfirmed frame went out with FCnt = 2^32 - 1 and the
\* session was saved with FCntDown = 0
C2_Witness ==
    \E t \in Tasks :
        /\ SentUnconfirmed(t) /\ PastSave(t) /\ call[t].saved
        /\ Frame(t).FCnt = MaxU32
        /\ store.fCntDown = Zero32

\* C3, as claimed: between two joins the stored FCntUp never goes backward
C3_FCntUpMonotonic ==
    [][joins' = joins => store'.fCntUp >= store.fCntUp]_vars

\* C4, as claimed: once a join has installed its session, the stored
\* session keeps the NwkSKey and the DevAddr of the latest join (the n-th
\* join installs NwkSKey n)
C4_JoinSessionKept ==
    joins > 0 => store.nwkSKey = joins /\ store.devAddr \in DevAddrs

\* the gateway refused the call's packet
GatewayFailed(t) ==
    Downlink(t) /\ Past(t) /\ call[t].res.handed /\ ~call[t].res.sent

\* C5: when the gateway's SendTXPacket fails, the call ends with an error,
\* its session copy keeps its FCntDown, it saves no session, and the stored
\* session is the one the call was given.
C5_GatewayFailure ==
    \A t \in Tasks : GatewayFailed(t) =>
        /\ call[t].pc = "done"
        /\ call[t].res.err = "send tx packet to gateway error"
        /\ call[t].res.ns = call[t].ns0
        /\ ~call[t].saved
        /\ store = call[t].ns0

\* C5, witness: the gateway refused an unconfirmed frame
C5_Witness ==
    \E t \in Tasks :
        /\ GatewayFailed(t)
        /\ ~call[t].res.ddCTX.Confirmed
        /\ Frame(t).MType = "UnconfirmedDataDown"

\* the call is over and returned nil after the gateway took its frame
Succeeded(t) ==
    /\ Downlink(t)
    /\ call[t].pc = "done"
    /\ call[t].res.sent
    /\ call[t].res.err = ""

\* C6: a downlink call that did not get its frame accepted by the gateway
\* (an error before or during the transmission, or the decision not to
\* transmit) deletes nothing and the items it read are still queued; and
\* every step that takes an item out of the MAC queue is a delete of a call
\* whose frame the gateway accepted, or the flush of a join.
C6_DeleteAfterSend ==
    /\ [](\A t \in Tasks : Downlink(t) /\ ~call[t].res.sent =>
             /\ call[t].pc # "delete"
             /\ call[t].deleted = <<>>
             /\ call[t].todo = <<>>
             /\ Ids(call[t].res.read) \subseteq Ids(queue))
    /\ [][(\E i \in Ids(queue) : i \notin Ids(queue')) =>
             \E t \in Tasks :
                 \/ call[t].pc = "flush"
                 \/ /\ call[t].pc = "delete"
                    /\ Downlink(t)
                    /\ call[t].res.sent
                    /\ call[t].res.err = ""]_vars

\* C6, witness: the gateway refused a frame that carried a queued MAC
\* command; the call is over and the item is still in the queue
C6_Witness ==
    \E t \in Tasks :
        /\ GatewayFailed(t)
        /\ call[t].pc = "done"
        /\ Carried(t) # <<>>
        /\ Ids(call[t].res.items) \subseteq Ids(queue)

UplinkSent(t) == call[t].kind = "uplink" /\ Past(t) /\ call[t].res.sent

\* C8, as claimed: a frame SendUplinkResponse transmits with an application
\* payload present has its MAC commands in FOpts, 15 bytes at most, the
\* application's non-zero FPort, and the application data as FRMPayload;
\* the items marked FRMPayload stay queued; and no transmitted frame has
\* FPort 0 with application data, or a non-zero FPort with MAC commands in
\* FRMPayload.
C8_AppPayloadFraming ==
    \A t \in Tasks : UplinkSent(t) =>
        LET r == call[t].res
            f == Frame(t)
        IN  /\ r.txPayload.status = "ok" =>
                  /\ f.FRMPayload.kind # "mac"
                  /\ f.FOpts = SelectSeq(r.items, LAMBDA qi : qi.ok)
                  /\ SumLen(f.FOpts) <= 15
                  /\ r.txPayload.FPort # 0
                  /\ f.FPort = r.txPayload.FPort
                  /\ f.FRMPayload = FRMData(r.txPayload.Data)
                  /\ \A i \in 1..Len(r.read) :
                        r.read[i].frm => /\ r.read[i].id \notin Ids(r.items)
                                         /\ r.read[i].id \in Ids(queue)
            /\ ~(f.FPort = 0 /\ f.FRMPayload.kind = "data")
            /\ ~(f.FPort > 0 /\ f.FRMPayload.kind = "mac")

\* C9, as claimed: without application payload, a frame sent when the head
\* of the MAC queue is marked FRMPayload has FPort 0, the selected commands
\* encrypted with the NwkSKey as FRMPayload, and no FOpts; when the head is
\* not marked FRMPayload the selected commands are in FOpts and the frame
\* has neither FPort nor FRMPayload.
C9_Original ==
    \A t \in Tasks :
        UplinkSent(t) /\ call[t].res.txPayload.status = "none"
                      /\ call[t].res.read # <<>> =>
            LET r == call[t].res
                f == Frame(t)
                cmds == SelectSeq(r.items, LAMBDA qi : qi.ok)
            IN  IF r.read[1].frm
                THEN /\ f.FPort = 0
                     /\ f.FRMPayload = [FRMMac(cmds) EXCEPT
                                            !.key = call[t].ns0.nwkSKey]
                     /\ f.FOpts = <<>>
                ELSE /\ f.FOpts = cmds
                     /\ f.FPort = NoFPort
                     /\ f.FRMPayload = FRMNone

\* C9, amended: without application payload, a frame sent when the head of
\* the MAC queue is marked FRMPayload and at least one selected item decodes
\* has FPort 0, the decoded selected commands encrypted with the NwkSKey as
\* FRMPayload, and no FOpts; when the head is marked FRMPayload and no
\* selected item decodes, the frame has no FPort, no FRMPayload and no
\* FOpts; when the head is not marked FRMPayload the decoded selected
\* commands are in FOpts and the frame has neither FPort nor FRMPayload.
C9_MACOnlyFraming ==
    \A t \in Tasks :
        UplinkSent(t) /\ call[t].res.txPayload.status = "none"
                      /\ call[t].res.read # <<>> =>
            LET r == call[t].res
                f == Frame(t)
                cmds == SelectSeq(r.items, LAMBDA qi : qi.ok)
            IN  IF r.read[1].frm /\ cmds # <<>>
                THEN /\ f.FPort = 0
                     /\ f.FRMPayload = [FRMMac(cmds) EXCEPT
                                            !.key = call[t].ns0.nwkSKey]
                     /\ f.FOpts = <<>>
                     /\ \A i \in 1..Len(r.items) : r.items[i].frm
                ELSE IF r.read[1].frm
                THEN /\ f.FPort = NoFPort
                     /\ f.FRMPayload = FRMNone
                     /\ f.FOpts = <<>>
                ELSE /\ f.FOpts = cmds
                     /\ f.FPort = NoFPort
                     /\ f.FRMPayload = FRMNone
                     /\ \A i \in 1..Len(r.items) : ~r.items[i].frm

\* C9, witness: a frame went out with FPort 0 and one encrypted MAC command
\* in FRMPayload, out of two selected items marked FRMPayload
C9_Witness ==
    \E t \in Tasks :
        /\ UplinkSent(t)
        /\ call[t].res.txPayload.status = "none"
        /\ Len(call[t].res.items) = 2
        /\ Frame(t).FPort = 0
        /\ Len(Frame(t).FRMPayload.cmds) = 1
        /\ Frame(t).FRMPayload.key = call[t].ns0.nwkSKey

\* the budget of the MAC commands of a call's frame: what the data rate
\* leaves next to the application data, capped at 15 bytes in FOpts
Budget(t) ==
    LET r == call[t].res
        room == MaxPayloadSize(r.packet.TXInfo.DataRate) - r.ddCTX.Data.len
    IN  IF r.encrypted THEN room ELSE Min(15, room)

C11_FPending ==
    \A t \in Tasks : Downlink(t) /\ Past(t) /\ call[t].res.sent =>
        LET r == call[t].res
        IN  Frame(t).FPending <=>
                \/ r.txPayload.status = "ok" /\ r.txPayload.MoreData
                \/ Len(r.items) # Len(r.read)

\* SendUplinkResponse got its TX parameters, read the MAC queue, and its
\* frame context passed the validation of SendDataDown
Validated(t) ==
    /\ Assembled(t)
    /\ call[t].res.err \notin {"ErrFPortMustNotBeZero", "ErrFPortMustBeZero"}

\* the response to a confirmed uplink with no application payload and an
\* empty MAC queue went out
AckOnly(t) ==
    /\ UplinkSent(t)
    /\ call[t].rx.MType = ConfirmedDataUp
    /\ call[t].res.txPayload.status = "none"
    /\ call[t].res.read = <<>>

\* the framing of the response to an uplink: a confirmed uplink is always
\* answered, with ACK set; no other response has ACK set; the frame is a
\* ConfirmedDataDown exactly when there is an application payload marked
\* Confirmed; the ACK-only response is an UnconfirmedDataDown with the
\* session's FCntDown, no FPort and no FRMPayload
AckFraming(t) ==
    LET r == call[t].res
        f == Frame(t)
    IN  /\ Validated(t) /\ call[t].rx.MType = ConfirmedDataUp =>
              r.handed /\ f.ACK
        /\ Validated(t) /\ r.handed /\ call[t].rx.MType # ConfirmedDataUp =>
              ~f.ACK
        /\ Validated(t) /\ r.handed =>
              (f.MType = "ConfirmedDataDown" <=>
                  r.txPayload.status = "ok" /\ r.txPayload.Confirmed)
        /\ Validated(t) /\ r.handed /\ f.MType # "ConfirmedDataDown" =>
              f.MType = "UnconfirmedDataDown"
        /\ AckOnly(t) =>
              /\ f.MType = "UnconfirmedDataDown"
              /\ f.ACK
              /\ f.FCnt = call[t].ns0.fCntDown
              /\ f.FPort = NoFPort
              /\ f.FRMPayload = FRMNone
              /\ f.FOpts = <<>>

\* C12, as claimed: the framing above, and after the ACK-only response the
\* stored FCntDown is one higher and the stored FCntUp is untouched.
C12_Original ==
    \A t \in Tasks :
        /\ AckFraming(t)
        /\ AckOnly(t) /\ PastSave(t) =>
              /\ store.fCntDown = Succ(call[t].ns0.fCntDown)
              /\ store.fCntUp = call[t].ns0.fCntUp

\* C12, amended: the framing above, and after the ACK-only response the
\* stored session is the session the call was given with FCntDown one
\* higher modulo 2^32 when SaveNodeSession succeeded, and is the session the
\* call was given, with the save error returned, when it failed; the stored
\* FCntUp is untouched either way.
C12_AckResponse ==
    \A t \in Tasks :
        /\ AckFraming(t)
        /\ AckOnly(t) /\ PastSave(t) =>
              /\ store.fCntUp = call[t].ns0.fCntUp
              /\ IF call[t].saved
                 THEN store = [call[t].ns0 EXCEPT !.fCntDown =
                                  Add32(call[t].ns0.fCntDown, ToU32(1))]
                 ELSE /\ store = call[t].ns0
                      /\ call[t].res.err = "save node-session error"

\* C12, witness: a confirmed uplink with FCntUp 10 met a session with
\* FCntDown 5, no application payload and an empty MAC queue; the ACK-only
\* response went out with FCnt 5 and the stored FCntDown is 6
C12_Witness ==
    \E t \in Tasks :
        /\ AckOnly(t)
        /\ call[t].pc = "done"
        /\ call[t].saved
        /\ Frame(t).ACK
        /\ Frame(t).FCnt = ToU32(5)
        /\ store.fCntDown = ToU32(6)
        /\ store.fCntUp = 10

\* a - b modulo 2^32, on the 16-bit halves
Sub32(a, b) ==
    LET borrow == IF a.lo < b.lo THEN 1 ELSE 0
    IN  U32((a.hi - b.hi - borrow) % Half, (a.lo - b.lo) % Half)

\* the delay of the first receive window of the session, in microseconds
RX1DelayMicros(ns) ==
    IF ns.rxDelay > 0 THEN ns.rxDelay * 1000000 ELSE 1000000

\* C13: the TX parameters of an uplink response.  RX1: the timestamp is the
\* uplink's plus RXDelay * 1,000,000 (1,000,000 for RXDelay 0) modulo 2^32,
\* on the uplink's frequency at the RX1 data rate; RX2: the timestamp is one
\* second later still, modulo 2^32, on the band's RX2 frequency at RX2DR.
\* Any other RXWindow, or an RX2DR beyond the band's table, ends the call
\* with an error before anything is transmitted or changed.
C13_TXInfo ==
    \A t \in Tasks : call[t].kind = "uplink" /\ Past(t) =>
        LET ns == call[t].ns0
            rx == call[t].rx.RXInfo
            tx == call[t].res.packet.TXInfo
            bad == \/ ns.rxWindow \notin {RX1, RX2}
                   \/ ns.rxWindow = RX2 /\ ns.rx2DR > 7
        IN  /\ call[t].res.handed /\ ns.rxWindow = RX1 =>
                  /\ Sub32(tx.Timestamp, rx.Timestamp) = ToU32(RX1DelayMicros(ns))
                  /\ tx.DataRate = IF rx.DataRate > ns.rx1DROffset
                                   THEN rx.DataRate - ns.rx1DROffset ELSE 0
                  /\ tx.Frequency = rx.Frequency
                  /\ tx.MAC = rx.MAC
            /\ call[t].res.handed /\ ns.rxWindow = RX2 =>
                  /\ Sub32(tx.Timestamp, rx.Timestamp) =
                         ToU32(RX1DelayMicros(ns) + 1000000)
                  /\ tx.DataRate = ns.rx2DR
                  /\ tx.Frequency = RX2Frequency
                  /\ tx.MAC = rx.MAC
            /\ bad => /\ call[t].res.err = "get data down txinfo error"
                      /\ call[t].pc = "done"
                      /\ ~call[t].res.handed
                      /\ Untouched(t)

\* C13, witness: an RX2 response whose timestamp wrapped around 2^32: the
\* uplink was received at 0xFFFF0000, RXDelay is 2, and the frame is due at
\* 3,000,000 - 65,536 microseconds
C13_Witness ==
    \E t \in Tasks :
        /\ UplinkSent(t)
        /\ call[t].ns0.rxWindow = RX2
        /\ call[t].ns0.rxDelay = 2
        /\ call[t].rx.RXInfo.Timestamp = U32(Half - 1, 0)
        /\ call[t].res.packet.TXInfo.Timestamp = ToU32(3000000 - 65536)

\* HandlePushDataDown ended with err before it handed anything to the
\* gateway, and changed neither the stored session nor the MAC queue
PushAborted(t, err) ==
    /\ call[t].pc = "done"
    /\ call[t].res.err = err
    /\ ~call[t].res.handed
    /\ Frame(t) = NoFrame
    /\ Untouched(t)
    /\ store = call[t].ns0
    /\ Ids(call[t].res.read) \subseteq Ids(queue)

\* frame contexts that ask for encrypted MAC commands on a non-zero FPort
EncryptedOnFPort ==
    { DataDownFrameContext(FALSE, fPort, cmds, TRUE, FALSE, FALSE, AppData(4)) :
        fPort \in {1, 255}, cmds \in {<<>>, <<Item(1, 5, TRUE, TRUE)>>} }

Joined(t) ==
    /\ call[t].kind = "join"
    /\ call[t].pc = "done"
    /\ call[t].res.err = ""

\* C15, as claimed: when the join handler has completed successfully the
\* stored session is a fresh one: FCntUp and FCntDown 0, RXWindow, RXDelay,
\* RX1DROffset, RX2DR and ADRInterval as the application server returned
\* them, the DevAddr that was sent to the application server, and the
\* collected RXInfoSet as LastRXInfoSet.
C15_FreshSession ==
    \A t \in Tasks : Joined(t) =>
        /\ store.fCntUp = 0
        /\ store.fCntDown = Zero32
        /\ store.nwkSKey = joins
        /\ store.rxWindow = call[t].join.resp.RxWindow
        /\ store.rxDelay = call[t].join.resp.RxDelay
        /\ store.rx1DROffset = call[t].join.resp.Rx1DROffset
        /\ store.rx2DR = call[t].join.resp.Rx2DR
        /\ store.adrInterval = call[t].join.resp.AdrInterval
        /\ store.devAddr = call[t].join.devAddr
        /\ store.lastRX = <<GW1>>

\* the join handler returned err before it saved a session: it saved and
\* flushed nothing and handed no JoinAccept to the gateway, and it called
\* HandleError n times
JoinAborted(t, err, n) ==
    /\ call[t].res.err = err
    /\ call[t].join.handleErrors = n
    /\ ~call[t].saved
    /\ ~call[t].res.handed
    /\ call[t].res.packet.PHYPayload = NoFrame

\* C16: a join whose response carries more than 5 CFList entries ends with
\* one HandleError(OTAA) and an error, one the application server rejects
\* or for which no DevAddr can be allocated ends with an error; in each
\* case no session is saved, the MAC queue is not flushed and no JoinAccept
\* is sent: the step of the handler leaves the stored session and the MAC
\* queue as they are.
C16_JoinAbort ==
    /\ [](\A t \in Tasks : call[t].kind = "join" =>
            IF call[t].join.devAddr = ""
            THEN call[t].pc = "done"
                 /\ JoinAborted(t, "get random DevAddr error", 0)
            ELSE IF call[t].join.resp.status = "err"
            THEN call[t].pc = "done"
                 /\ JoinAborted(t, "application server join-request error", 0)
            ELSE call[t].join.resp.CFListLen > 5 =>
                 call[t].pc = "done" /\ JoinAborted(t, "max CFlist size", 1))
    /\ [][\A t \in Tasks :
            /\ call[t].kind # "join"
            /\ call'[t].kind = "join"
            /\ \/ call'[t].join.devAddr = ""
               \/ call'[t].join.resp.status = "err"
               \/ call'[t].join.resp.CFListLen > 5
            => store' = store /\ queue' = queue /\ joins' = joins]_vars

\* C16, witness: a join whose response carries 6 CFList entries was given
\* up after one HandleError, while the MAC queue holds an item and the
\* stored session is still the one of before
C16_Witness ==
    \E t \in Tasks :
        /\ call[t].kind = "join"
        /\ call[t].join.resp.CFListLen = 6
        /\ JoinAborted(t, "max CFlist size", 1)
        /\ queue # <<>>
        /\ store \in InitSessions

\* C17, as claimed: once a join has saved its fresh session, no downlink
\* transmitted under that session (its MIC is computed with the NwkSKey of
\* the join) carries a MAC command that was enqueued before the join.
C17_FlushedAtJoin ==
    \A j \in Tasks, t \in Tasks :
        /\ call[j].kind = "join"
        /\ call[j].saved
        /\ Downlink(t)
        /\ call[t].res.sent
        /\ Frame(t).MIC = call[j].ns0.nwkSKey
        => \A i \in 1..Len(Carried(t)) :
               Carried(t)[i].id > call[j].join.lastId

\* the data rate of the response to the call's uplink
ResponseDR(t) ==
    IF call[t].ns0.rxWindow = RX1
    THEN IF call[t].rx.RXInfo.DataRate > call[t].ns0.rx1DROffset
         THEN call[t].rx.RXInfo.DataRate - call[t].ns0.rx1DROffset ELSE 0
    ELSE call[t].ns0.rx2DR

\* GetDataDown gave the call nothing it can send: an error, a nil response,
\* a response with FPort 0, or more data than the data rate allows
NothingToSend(t) ==
    \/ call[t].app.status \in {"err", "nil"}
    \/ call[t].app.FPort = 0
    \/ call[t].app.Data.len > MaxPayloadSizeN[ResponseDR(t) + 1]

\* C18: when GetDataDown fails, returns nil, returns FPort 0 or returns more
\* data than MaxPayloadSize allows, SendUplinkResponse goes on without an
\* application payload: it fails only for what happens later (the gateway,
\* the session save, a delete), it hands a frame to the gateway iff a
\* selected MAC command decodes or the uplink is confirmed or has ADRACKReq
\* set, the frame carries no application data, and MAC commands marked
\* FRMPayload are selected and sent encrypted on FPort 0.
C18_NoPayload ==
    \A t \in Tasks : Assembled(t) /\ NothingToSend(t) =>
        LET r == call[t].res
            f == Frame(t)
            cmds == SelectSeq(r.items, LAMBDA qi : qi.ok)
        IN  /\ r.txPayload.status = "none"
            /\ r.err \in {"", "send tx packet to gateway error",
                          "save node-session error",
                          "delete mac-command queue item error"}
            /\ r.handed <=> \/ cmds # <<>>
                            \/ call[t].rx.MType = ConfirmedDataUp
                            \/ call[t].rx.ADRACKReq
            /\ ~r.handed => r.err = ""
            /\ r.handed => /\ f.FRMPayload.kind # "data"
                           /\ f.FPort \in {NoFPort, 0}
                           /\ ~f.FPending \/ Len(r.items) < Len(r.read)
            /\ r.read # <<>> /\ r.read[1].frm =>
                  /\ r.encrypted
                  /\ r.items = FilterItems(r.read, TRUE,
                                           MaxPayloadSizeN[ResponseDR(t) + 1])
                  /\ r.handed /\ cmds # <<>> =>
                        f.FPort = 0 /\ f.FRMPayload.kind = "mac"
                                    /\ f.FRMPayload.cmds = cmds

\* C18, witness: GetDataDown failed on an unconfirmed uplink and the queued
\* MAC command marked FRMPayload went out encrypted on FPort 0
C18_Witness ==
    \E t \in Tasks :
        /\ UplinkSent(t)
        /\ call[t].app.status = "err"
        /\ call[t].rx.MType = UnconfirmedDataUp
        /\ ~call[t].rx.ADRACKReq
        /\ Frame(t).FPort = 0
        /\ Frame(t).FRMPayload.kind = "mac"
        /\ Len(Frame(t).FRMPayload.cmds) = 1


\* the elements of a sequence
Range(seq) == { seq[i] : i \in 1..Len(seq) }

\* every reception that started collectJoinRequestPacket has returned
AllReturned ==
    \A g \in Gateways : dedup.pc[g] \in {"idle", "returned"}

ClaimedCode(root) ==
    IF root \in {"ErrFPortMustNotBeZero", "ErrFPortMustBeZero",
                 "ErrMaxPayloadSizeExceeded"} THEN "InvalidArgument"
    ELSE IF root = "ErrNoLastRXInfoSet" THEN "FailedPrecondition"
    ELSE IF root = "ErrInvalidDataRate" THEN "Internal"
    ELSE IF root \in {"session_ErrDoesNotExist",
                      "session_ErrDoesNotExistOrFCntOrMICInvalid"}
    THEN "NotFound"
    ELSE "Unknown"

\* the errors of the gateway package, which the claim does not list
GatewayErrors ==
    {"gateway_ErrDoesNotExist", "gateway_ErrAlreadyExists",
     "gateway_ErrInvalidAggregationInterval", "gateway_ErrInvalidName"}

\* C20: the status errToRPCError returns has the code of the root cause of
\* the error, however many times the error was wrapped: InvalidArgument
\* for ErrFPortMustNotBeZero, ErrFPortMustBeZero and
\* ErrMaxPayloadSizeExceeded, FailedPrecondition for ErrNoLastRXInfoSet,
\* Internal for ErrInvalidDataRate, NotFound for the session not-found
\* errors, Unknown for every root cause that is not in the table.
C20_CodeOfRootCause ==
    rpc.err # Nil =>
        /\ rpc.err.cause \notin GatewayErrors =>
              rpc.status.code = ClaimedCode(rpc.err.cause)
        /\ rpc.err.cause \notin DOMAIN errToCode =>
              rpc.status.code = "Unknown"

\* C20, witness: a push request with data on FPort 0 is rejected by
\* Validate; the error reaches the API wrapped twice and is returned as
\* InvalidArgument
C20_Witness ==
    /\ rpc.err.cause = "ErrFPortMustNotBeZero"
    /\ rpc.err.wraps = <<"send data down error", "validation error">>
    /\ rpc.status.code = "InvalidArgument"

\* C21, as claimed: within one session no two downlink frames the gateway
\* accepted carry the same FHDR.FCnt, in every interleaving of
\* SendUplinkResponse and HandlePushDataDown calls
C21_FCntDownUnique ==
    \A t1, t2 \in Tasks :
        /\ t1 # t2 /\ Downlink(t1) /\ Downlink(t2)
        /\ call[t1].res.sent /\ call[t2].res.sent
        /\ Frame(t1).MIC = Frame(t2).MIC
        => Frame(t1).FCnt # Frame(t2).FCnt

\* C22, as claimed: while the device keeps sending uplinks and every gateway
\* send and cache operation succeeds, every item of the MAC queue is
\* eventually removed from the queue, an item that does not decode and an
\* item longer than FOpts included
C22_EventuallyRemoved ==
    \A id \in 1..MaxItems :
        (id \in Ids(queue)) ~> (id \notin Ids(queue))

====
